---- MODULE Spec2Model ----
(***************************************************************************)
(* The flight-data pipeline of src/flights.py: main() parses a             *)
(* semicolon-delimited text into a pandas DataFrame, cleans a copy of it   *)
(* column by column, projects the final columns, prints the table and      *)
(* writes it to a CSV file.                                                *)
(*                                                                         *)
(* Text is a sequence of one-character strings.  A DataFrame is a record   *)
(* of its column names (in order), its row count and one sequence of cells *)
(* per column.  DataFrames are Python objects: they live in a heap and the *)
(* program's variables hold references (heap indices, 0 for None), so that *)
(* in-place column assignment is visible through every alias.              *)
(***************************************************************************)
EXTENDS Integers, Sequences, FiniteSets, TLC

VARIABLES
    raw_data,         \* main: the raw text returned by get_raw_flight_data()
    heap,             \* the DataFrame objects allocated so far
    flights_df,       \* main: reference to the parsed frame
    passed_df,        \* the reference main passes to clean_and_prepare_data
    local_df,         \* clean_and_prepare_data: its local name flights_df
    cleaned_flights,  \* main: reference to the frame the cleaner returned
    final_df,         \* main: reference to the projected frame
    stdout,           \* what has been printed, in order
    csv_file,         \* the file Cleaned_Airline_Data.csv
    log,              \* the stages of main completed so far, in order
    pc,               \* the statement main is about to execute
    err               \* the exception that ended the run, if any

vars == <<raw_data, heap, flights_df, passed_df, local_df, cleaned_flights,
          final_df, stdout, csv_file, log, pc, err>>

----------------------------------------------------------------------------
(* Bounds of the model *)

MaxRows == 2
MaxLen == 4

----------------------------------------------------------------------------
(* Characters and Python's str / re primitives *)

Lower == <<"a","b","c","d","e","f","g","h","i","j","k","l","m",
           "n","o","p","q","r","s","t","u","v","w","x","y","z">>
Upper == <<"A","B","C","D","E","F","G","H","I","J","K","L","M",
           "N","O","P","Q","R","S","T","U","V","W","X","Y","Z">>
DigitChars == <<"0","1","2","3","4","5","6","7","8","9">>

Digits  == {DigitChars[i] : i \in DOMAIN DigitChars}
Letters == {Lower[i] : i \in DOMAIN Lower} \cup {Upper[i] : i \in DOMAIN Upper}
UpperOf == [c \in {Lower[i] : i \in DOMAIN Lower} |->
               Upper[CHOOSE i \in DOMAIN Lower : Lower[i] = c]]
ValueOf == [c \in Digits |-> (CHOOSE i \in DOMAIN DigitChars : DigitChars[i] = c) - 1]

IsDigit(c) == c \in Digits
IsAlpha(c) == c \in Letters
IsSpace(c) == c \in {" ", "\t", "\n", "\r"}
\* the regex class \w: alphanumerics and the underscore
IsWord(c) == IsAlpha(c) \/ IsDigit(c) \/ c = "_"

DigitVal(c) == ValueOf[c]

\* str.upper(), one character
upper_char(c) == IF c \in DOMAIN UpperOf THEN UpperOf[c] ELSE c

\* str.upper()
str_upper(s) == [i \in DOMAIN s |-> upper_char(s[i])]

\* the first position from i on, stepping by d, that holds no whitespace
RECURSIVE skip_space(_, _, _)
skip_space(s, i, d) ==
    IF i < 1 \/ i > Len(s) \/ ~IsSpace(s[i]) THEN i ELSE skip_space(s, i + d, d)

\* str.strip(): drop leading and trailing whitespace
str_strip(s) == SubSeq(s, skip_space(s, 1, 1), skip_space(s, Len(s), -1))

\* str.split(sep) for a one-character separator: every separator splits
RECURSIVE str_split(_, _)
str_split(s, sep) ==
    LET at == {i \in DOMAIN s : s[i] = sep}
    IN  IF at = {} THEN <<s>>
        ELSE LET p == CHOOSE i \in at : \A j \in at : i <= j
             IN  <<SubSeq(s, 1, p - 1)>> \o str_split(SubSeq(s, p + 1, Len(s)), sep)

\* int() of a string of decimal digits
RECURSIVE int_of_digits(_)
int_of_digits(s) ==
    IF s = <<>> THEN 0
    ELSE 10 * int_of_digits(SubSeq(s, 1, Len(s) - 1)) + DigitVal(s[Len(s)])

\* re.sub(r'[^\w\s]|\d', '', s): delete every character the pattern matches
re_sub_special_or_digit(s) ==
    SelectSeq(s, LAMBDA c : ~((~IsWord(c) /\ ~IsSpace(c)) \/ IsDigit(c)))

\* mutant of re_findall_digits: the pattern \d, one match per digit
re_findall_single_digits(s) ==
    LET at == SelectSeq([i \in DOMAIN s |-> i], LAMBDA i : IsDigit(s[i]))
    IN  [k \in DOMAIN at |-> <<s[at[k]]>>]

\* re.findall(r'\d+', s): scan left to right, each match greedy
RECURSIVE re_findall_digits(_)
re_findall_digits(s) ==
    IF s = <<>> THEN <<>>
    ELSE IF ~IsDigit(Head(s)) THEN re_findall_digits(Tail(s))
    ELSE LET k == CHOOSE k \in DOMAIN s :
                      /\ \A i \in 1..k : IsDigit(s[i])
                      /\ (k = Len(s) \/ ~IsDigit(s[k + 1]))
         IN  <<SubSeq(s, 1, k)>> \o re_findall_digits(SubSeq(s, k + 1, Len(s)))

----------------------------------------------------------------------------
(* Cells, exceptions and DataFrames *)

StrCell(s) == [t |-> "str", v |-> s]
\* None / NaN: a missing value
NaN == [t |-> "nan", v |-> <<>>]
IntCell(n) == [t |-> "int", v |-> <<n>>]
\* the float m / 10^k, kept exactly as <<m, k>>
FloatCell(m, k) == [t |-> "float", v |-> <<m, k>>]
ListCell(l) == [t |-> "list", v |-> l]

\* an exception, by its class; none of the messages raised here names a line
\* or a row of the input
NoError == [type |-> "none"]
Exception(type) == [type |-> type]

NoFrame == [columns |-> <<>>, nrows |-> 0, data |-> <<>>]

Range(s) == {s[i] : i \in DOMAIN s}
MaxOf(S) == CHOOSE x \in S : \A y \in S : y <= x

\* df[name] = values: replaces the column, or appends a new one at the end
set_column(df, name, values) ==
    [columns |-> IF name \in Range(df.columns) THEN df.columns
                 ELSE Append(df.columns, name),
     nrows   |-> df.nrows,
     data    |-> [c \in Range(df.columns) \cup {name} |->
                     IF c = name THEN values ELSE df.data[c]]]

\* df.drop(columns=[name]): a new frame without the column
drop_column(df, name) ==
    [columns |-> SelectSeq(df.columns, LAMBDA c : c # name),
     nrows   |-> df.nrows,
     data    |-> [c \in Range(df.columns) \ {name} |-> df.data[c]]]

\* mutant of select_columns: the frame as it is, nothing selected
select_columns_all(df, names) == df

\* df[names]: a new frame with exactly these columns, in this order
select_columns(df, names) ==
    [columns |-> names,
     nrows   |-> df.nrows,
     data    |-> [c \in Range(names) |-> df.data[c]]]

\* pd.DataFrame(data_rows, columns=header) for a list of lists of strings:
\* the data is as wide as its longest row, shorter rows are filled with
\* None, and a width other than len(header) raises ValueError
pd_DataFrame(data_rows, header) ==
    LET n     == Len(data_rows)
        width == MaxOf({Len(data_rows[i]) : i \in 1..n} \cup {0})
    IN  IF n > 0 /\ width # Len(header)
        THEN [ok |-> FALSE, df |-> NoFrame, err |-> Exception("ValueError")]
        ELSE [ok  |-> TRUE,
              err |-> NoError,
              df  |-> [columns |-> header,
                       nrows   |-> n,
                       data    |-> [c \in Range(header) |->
                           LET j == CHOOSE j \in DOMAIN header : header[j] = c
                           IN  [i \in 1..n |->
                                   IF j <= Len(data_rows[i])
                                   THEN StrCell(data_rows[i][j]) ELSE NaN]]]]

----------------------------------------------------------------------------
(* The column names *)

AirlineCode == <<"A","i","r","l","i","n","e"," ","C","o","d","e">>
DelayTimes  == <<"D","e","l","a","y","T","i","m","e","s">>
FlightCodes == <<"F","l","i","g","h","t","C","o","d","e","s">>
To_From     == <<"T","o","_","F","r","o","m">>
From        == <<"F","r","o","m">>
To          == <<"T","o">>

final_columns == <<AirlineCode, From, To, FlightCodes, DelayTimes>>

----------------------------------------------------------------------------
(* The statements of parse_flight_data_string and clean_and_prepare_data *)

\* data_string.strip().split('\n')
lines_of(data_string) == str_split(str_strip(data_string), "\n")

\* parse_flight_data_string: the frame, or the exception pandas raises
parse_result(data_string) ==
    LET lines     == lines_of(data_string)
        header    == str_split(lines[1], ";")
        data_rows == [i \in 1..(Len(lines) - 1) |-> str_split(lines[i + 1], ";")]
    IN  pd_DataFrame(data_rows, header)

\* .str.replace(r'[^\w\s]|\d', '', regex=True).str.strip(), one value
clean_airline_code(s) == StrCell(str_strip(re_sub_special_or_digit(s)))

\* the same over a column: Series.str methods apply to the strings, a missing
\* value stays missing
str_replace_strip(series) ==
    [i \in DOMAIN series |->
        IF series[i].t = "str" THEN clean_airline_code(series[i].v) ELSE NaN]

\* whether pd.to_numeric reads the text as a number: an optional minus sign,
\* digits, and optionally a point followed by digits
IsNumeric(s) ==
    LET body  == IF s # <<>> /\ Head(s) = "-" THEN Tail(s) ELSE s
        parts == str_split(body, ".")
        digits(x) == \A i \in DOMAIN x : IsDigit(x[i])
    IN  /\ Len(parts) <= 2
        /\ parts[1] # <<>>
        /\ \A k \in DOMAIN parts : digits(parts[k])

\* the float a numeric text denotes
parse_float(s) ==
    LET neg   == Head(s) = "-"
        body  == IF neg THEN Tail(s) ELSE s
        parts == str_split(body, ".")
        frac  == IF Len(parts) = 2 THEN parts[2] ELSE <<>>
        m     == int_of_digits(parts[1] \o frac)
    IN  FloatCell(IF neg THEN 0 - m ELSE m, Len(frac))

\* mutant of to_numeric: what cannot be parsed becomes 0 instead of NaN
to_numeric_fill0(cell) ==
    IF cell.t = "str" /\ IsNumeric(cell.v) THEN parse_float(cell.v) ELSE FloatCell(0, 0)

\* pd.to_numeric(series, errors='coerce'), one value
to_numeric(cell) ==
    IF cell.t = "str" /\ IsNumeric(cell.v) THEN parse_float(cell.v) ELSE NaN

RECURSIVE Pow10(_)
Pow10(k) == IF k = 0 THEN 1 ELSE 10 * Pow10(k - 1)

\* int(x) of a float: truncation towards zero
int_of_float(cell) ==
    LET m == cell.v[1]
        d == Pow10(cell.v[2])
    IN  IF m >= 0 THEN m \div d ELSE 0 - ((0 - m) \div d)

\* flights_df['FlightCodes'].replace('', np.nan)
replace_empty(series) ==
    [i \in DOMAIN series |-> IF series[i] = StrCell(<<>>) THEN NaN ELSE series[i]]

\* numeric_codes.dropna(): the positions that hold a number, in row order
dropna(series) == {i \in DOMAIN series : series[i].t # "nan"}

\* the step between consecutive flight codes
CodeStep == 10

\* [start_code + 10 * i for i in range(len(flights_df))]
regenerated_codes(start_code, n) ==
    [i \in 1..n |-> IntCell(start_code + CodeStep * (i - 1))]

\* .str.split('_', expand=True): one column per part, as many columns as the
\* longest split has parts; a shorter or missing row is filled with None
route_split(series) ==
    LET parts(i) == IF series[i].t = "str" THEN str_split(series[i].v, "_") ELSE <<>>
        width    == MaxOf({Len(parts(i)) : i \in DOMAIN series} \cup {0})
    IN  [k \in 1..width |->
            [i \in DOMAIN series |->
                IF k <= Len(parts(i)) THEN StrCell(parts(i)[k]) ELSE NaN]]

\* .str.findall(r'\d+'), one value
findall_cell(s) == ListCell(re_findall_digits(s))

\* .str.findall(r'\d+') over a column: a missing value stays missing
str_findall(series) ==
    [i \in DOMAIN series |->
        IF series[i].t = "str" THEN findall_cell(series[i].v) ELSE NaN]

\* [int(i) for i in x]
ints_of(x) == [k \in DOMAIN x |-> int_of_digits(x[k])]

----------------------------------------------------------------------------
(* The raw inputs *)

\* ';'.join(fields)
RECURSIVE join_fields(_)
join_fields(fields) ==
    IF Len(fields) = 1 THEN fields[1]
    ELSE fields[1] \o <<";">> \o join_fields(Tail(fields))

\* the text get_raw_flight_data returns for the given data lines: the header
\* line, then one line per record, every line ended by a newline
RECURSIVE raw_lines(_)
raw_lines(rows) ==
    IF rows = <<>> THEN <<>>
    ELSE join_fields(rows[1]) \o <<"\n">> \o raw_lines(Tail(rows))

get_raw_flight_data(rows) ==
    raw_lines(<<<<AirlineCode, DelayTimes, FlightCodes, To_From>>>> \o rows)

\* '(Porter Airways. )' and '[60, 22, 87]', shortened
SampleAirline == <<"(","P","o"," ","A","."," ",")">>
SampleDelays  == <<"[","6","0",","," ","2","2","]">>

\* a missing code, numeric codes, and a text that is no number
CodeInputs ==
    { <<>>,
      <<"1","5",".","0">>,
      <<"2","0","7",".","9">>,
      <<"-","7",".","5">>,
      <<"n","o","n","e">> }

\* routes with one, no and two underscores
RouteInputs ==
    { <<"W","A","t","_","N","E","w">>,
      <<"C","a","l","g","a","r","y">>,
      <<"a","_","B","_","c">> }

\* lines with as many fields as the header
FullLines ==
    { <<SampleAirline, SampleDelays, c, r>> : c \in CodeInputs, r \in RouteInputs }

\* an empty line, a line with a field missing, a line with a field too many
RaggedLines ==
    { << <<>> >>,
      << <<"A","b">>, <<"[","7","]">>, <<"3","5",".","0">> >>,
      << <<"A","b">>, <<"[","7","]">>, <<"3","5",".","0">>, <<"a","_","b">>, <<"x">> >> }

InputLines == FullLines \cup RaggedLines

\* every table of at most MaxRows of these lines
InputTables == UNION { [1..n -> InputLines] : n \in 0..MaxRows }

\* every text of at most MaxLen characters over the field's alphabet, as the
\* airline code, the delay times or the route of the first of two records
AirlineAlphabet == {"b", "7", " ", "_", "!"}
DelayAlphabet   == {"0", "7", ",", " ", "b"}
RouteAlphabet   == {"A", "b", "_", "7", " "}

Texts(alphabet) == UNION { [1..n -> alphabet] : n \in 0..MaxLen }

SampleLine ==
    << <<"A","i","r">>, <<"[","1","2",","," ","3","3","]">>,
       <<"2","0","0","1","5",".","0">>, <<"l","o","n","_","M","O","N">> >>

TextTables ==
    { << [SampleLine EXCEPT ![1] = s], SampleLine >> : s \in Texts(AirlineAlphabet) }
    \cup { << [SampleLine EXCEPT ![2] = s], SampleLine >> : s \in Texts(DelayAlphabet) }
    \cup { << [SampleLine EXCEPT ![4] = s], SampleLine >> : s \in Texts(RouteAlphabet) }

RawInputs == { get_raw_flight_data(rows) : rows \in InputTables \cup TextTables }

----------------------------------------------------------------------------
(* The run of main *)

NoFile == [exists |-> FALSE, content |-> NoFrame]

Init ==
    /\ raw_data \in RawInputs
    /\ heap = <<>>
    /\ flights_df = 0
    /\ passed_df = 0
    /\ local_df = 0
    /\ cleaned_flights = 0
    /\ final_df = 0
    /\ stdout = <<>>
    /\ csv_file = NoFile
    /\ log = <<>>
    /\ pc = "parse"
    /\ err = NoError

\* an uncaught exception ends the run
raise(e) ==
    /\ pc' = "failed"
    /\ err' = e

\* lines 78-82: print the banner, load the text, parse it
main_parse ==
    /\ pc = "parse"
    /\ stdout' = Append(stdout, "Processing flight data...")
    /\ LET r == parse_result(raw_data)
       IN  IF r.ok
           THEN /\ heap' = Append(heap, r.df)
                /\ flights_df' = Len(heap) + 1
                /\ log' = Append(log, "parse")
                /\ pc' = "copy"
                /\ err' = err
           ELSE /\ raise(r.err)
                /\ UNCHANGED <<heap, flights_df, log>>
    /\ UNCHANGED <<raw_data, passed_df, local_df, cleaned_flights, final_df, csv_file>>

\* mutant of main_call_clean: clean_and_prepare_data(flights_df), no copy
main_call_clean_alias ==
    /\ pc = "copy"
    /\ passed_df' = flights_df
    /\ local_df' = flights_df
    /\ pc' = "airline"
    /\ UNCHANGED <<raw_data, heap, flights_df, cleaned_flights, final_df, stdout,
                   csv_file, log, err>>

\* line 85: clean_and_prepare_data(flights_df.copy())
main_call_clean ==
    /\ pc = "copy"
    /\ heap' = Append(heap, heap[flights_df])
    /\ passed_df' = Len(heap) + 1
    /\ local_df' = Len(heap) + 1
    /\ pc' = "airline"
    /\ UNCHANGED <<raw_data, flights_df, cleaned_flights, final_df, stdout,
                   csv_file, log, err>>

\* lines 45-49
clean_AirlineCode ==
    /\ pc = "airline"
    /\ LET df == heap[local_df]
       IN  heap' = [heap EXCEPT ![local_df] =
                       set_column(df, AirlineCode,
                                  str_replace_strip(df.data[AirlineCode]))]
    /\ pc' = "codes"
    /\ UNCHANGED <<raw_data, flights_df, passed_df, local_df, cleaned_flights,
                   final_df, stdout, csv_file, log, err>>

\* mutant of start_code_of: iloc[-1], the last number instead of the first
start_code_of_last(numeric_codes) ==
    LET present == dropna(numeric_codes)
    IN  int_of_float(numeric_codes[CHOOSE i \in present : \A j \in present : j <= i])

\* int(numeric_codes.dropna().iloc[0])
start_code_of(numeric_codes) ==
    LET present == dropna(numeric_codes)
    IN  int_of_float(numeric_codes[CHOOSE i \in present : \A j \in present : i <= j])

\* lines 52-55
clean_FlightCodes ==
    /\ pc = "codes"
    /\ LET df            == heap[local_df]
           replaced      == replace_empty(df.data[FlightCodes])
           df52          == set_column(df, FlightCodes, replaced)
           numeric_codes == [i \in DOMAIN replaced |-> to_numeric(replaced[i])]
       IN  IF dropna(numeric_codes) = {}
           THEN /\ heap' = [heap EXCEPT ![local_df] = df52]
                /\ raise(Exception("IndexError"))
           ELSE /\ heap' = [heap EXCEPT ![local_df] =
                               set_column(df52, FlightCodes,
                                   regenerated_codes(start_code_of(numeric_codes),
                                                     df.nrows))]
                /\ pc' = "route"
                /\ err' = err
    /\ UNCHANGED <<raw_data, flights_df, passed_df, local_df, cleaned_flights,
                   final_df, stdout, csv_file, log>>

\* mutant of upper_cell: str.capitalize-like, only the first letter raised
upper_cell_first(s) ==
    StrCell([i \in DOMAIN s |-> IF i = 1 THEN upper_char(s[i]) ELSE s[i]])

\* .str.upper(), one value
upper_cell(s) == StrCell(str_upper(s))

\* .str.upper() over a column: a missing value stays missing
str_upper_series(series) ==
    [i \in DOMAIN series |->
        IF series[i].t = "str" THEN upper_cell(series[i].v) ELSE NaN]

\* lines 58-61
clean_To_From ==
    /\ pc = "route"
    /\ LET df    == heap[local_df]
           split == route_split(df.data[To_From])
       IN  IF Len(split) < 1
           THEN /\ raise(Exception("KeyError"))
                /\ UNCHANGED <<heap, local_df>>
           ELSE LET df59 == set_column(df, From, str_upper_series(split[1]))
                IN  IF Len(split) < 2
                    THEN /\ heap' = [heap EXCEPT ![local_df] = df59]
                         /\ raise(Exception("KeyError"))
                         /\ UNCHANGED local_df
                    ELSE LET df60 == set_column(df59, To, str_upper_series(split[2]))
                         IN  /\ heap' = Append([heap EXCEPT ![local_df] = df60],
                                               drop_column(df60, To_From))
                             /\ local_df' = Len(heap) + 1
                             /\ pc' = "delay"
                             /\ err' = err
    /\ UNCHANGED <<raw_data, flights_df, passed_df, cleaned_flights, final_df,
                   stdout, csv_file, log>>

\* lines 64-70
clean_DelayTimes ==
    /\ pc = "delay"
    /\ LET df    == heap[local_df]
           found == str_findall(df.data[DelayTimes])
       IN  IF \E i \in DOMAIN found : found[i].t = "nan"
           THEN /\ raise(Exception("TypeError"))
                /\ UNCHANGED <<heap, cleaned_flights, log>>
           ELSE /\ heap' = [heap EXCEPT ![local_df] =
                               set_column(df, DelayTimes,
                                   [i \in DOMAIN found |-> ListCell(ints_of(found[i].v))])]
                /\ cleaned_flights' = local_df
                /\ log' = Append(log, "clean")
                /\ pc' = "project"
                /\ err' = err
    /\ UNCHANGED <<raw_data, flights_df, passed_df, local_df, final_df, stdout, csv_file>>

\* lines 88-89
main_project ==
    /\ pc = "project"
    /\ LET df == heap[cleaned_flights]
       IN  IF Range(final_columns) \subseteq Range(df.columns)
           THEN /\ heap' = Append(heap, select_columns(df, final_columns))
                /\ final_df' = Len(heap) + 1
                /\ log' = Append(log, "project")
                /\ pc' = "print"
                /\ err' = err
           ELSE /\ raise(Exception("KeyError"))
                /\ UNCHANGED <<heap, final_df, log>>
    /\ UNCHANGED <<raw_data, flights_df, passed_df, local_df, cleaned_flights,
                   stdout, csv_file>>

\* lines 92-93
main_print ==
    /\ pc = "print"
    /\ stdout' = stdout \o <<"--- Transformed Flight Data ---", "final_df.to_string()">>
    /\ log' = Append(log, "print")
    /\ pc' = "write"
    /\ UNCHANGED <<raw_data, heap, flights_df, passed_df, local_df, cleaned_flights,
                   final_df, csv_file, err>>

\* mutant of main_to_csv: the file is written in a finally clause
main_to_csv_finally ==
    /\ pc \in {"write", "failed"}
    /\ ~csv_file.exists
    /\ csv_file' = [exists |-> TRUE,
                    content |-> IF final_df # 0 THEN heap[final_df] ELSE NoFrame]
    /\ stdout' = Append(stdout, "Successfully saved the transformed data")
    /\ log' = Append(log, "write")
    /\ pc' = IF pc = "failed" THEN "failed" ELSE "done"
    /\ UNCHANGED <<raw_data, heap, flights_df, passed_df, local_df, cleaned_flights,
                   final_df, err>>

\* lines 96-98
main_to_csv ==
    /\ pc = "write"
    /\ csv_file' = [exists |-> TRUE, content |-> heap[final_df]]
    /\ stdout' = Append(stdout, "Successfully saved the transformed data")
    /\ log' = Append(log, "write")
    /\ pc' = "done"
    /\ UNCHANGED <<raw_data, heap, flights_df, passed_df, local_df, cleaned_flights,
                   final_df, err>>

Next ==
    \/ main_parse
    \/ main_call_clean
    \/ clean_AirlineCode
    \/ clean_FlightCodes
    \/ clean_To_From
    \/ clean_DelayTimes
    \/ main_project
    \/ main_print
    \/ main_to_csv

Spec == Init /\ [][Next]_vars

----------------------------------------------------------------------------
(* What the properties below speak about *)

\* the table as parsed, the table handed to the cleaner, and its results
Parsed    == heap[flights_df]
Passed    == heap[passed_df]
Cleaned   == heap[cleaned_flights]
Projected == heap[final_df]

Rows(df) == 1..df.nrows

Min(S) == CHOOSE x \in S : \A y \in S : x <= y

\* the data lines of the raw text (after the header), each split into fields
DataLines ==
    LET lines == lines_of(raw_data)
    IN  [k \in 1..(Len(lines) - 1) |-> str_split(lines[k + 1], ";")]

HeaderWidth == Len(str_split(lines_of(raw_data)[1], ";"))

Underscores(s) == {i \in DOMAIN s : s[i] = "_"}

TablePrinted == \E i \in DOMAIN stdout : stdout[i] = "final_df.to_string()"

Stages == <<"parse", "clean", "project", "print", "write">>

----------------------------------------------------------------------------
(* C1 *)

\* the rows of the parsed table whose flight code is a non-empty numeric text
NumericRows ==
    {i \in Rows(Parsed) :
        /\ Parsed.data[FlightCodes][i].t = "str"
        /\ Parsed.data[FlightCodes][i].v # <<>>
        /\ IsNumeric(Parsed.data[FlightCodes][i].v)}

\* C1: once the cleaner has returned, the flight code of row i (0-based) is
\* start_code + 10*i, where start_code is the integer value of the first
\* non-empty numeric flight code of the input, whatever the other rows hold
\* and wherever that first code stands.
C1_FlightCodesProgression ==
    cleaned_flights # 0 =>
        /\ NumericRows # {}
        /\ LET start == int_of_float(parse_float(Parsed.data[FlightCodes][Min(NumericRows)].v))
           IN  \A i \in Rows(Cleaned) :
                   Cleaned.data[FlightCodes][i] = IntCell(start + 10 * (i - 1))

\* the first numeric code is not in the first row, and the cleaner returned
C1_Witness ==
    /\ cleaned_flights # 0
    /\ Min(NumericRows) > 1

----------------------------------------------------------------------------
(* C2 *)

\* C2: a cleaned airline code holds no digit, no character that is neither
\* alphanumeric nor whitespace, and no leading or trailing whitespace.
C2_AirlineCodeClean ==
    (passed_df # 0 /\ pc \notin {"parse", "copy", "airline"}) =>
        \A k \in Rows(Passed) :
            LET cell == Passed.data[AirlineCode][k]
            IN  cell.t = "str" =>
                    /\ \A i \in DOMAIN cell.v :
                           /\ ~IsDigit(cell.v[i])
                           /\ IsAlpha(cell.v[i]) \/ IsSpace(cell.v[i])
                    /\ cell.v # <<>> => ~IsSpace(Head(cell.v)) /\ ~IsSpace(cell.v[Len(cell.v)])

----------------------------------------------------------------------------
(* C3 *)

\* the data lines whose field count differs from the header's
RaggedRows == {k \in DOMAIN DataLines : Len(DataLines[k]) # HeaderWidth}

\* C3: when a data line has a field count other than the header's, parsing
\* fails with an error and returns no table, so no table holds that line
\* padded with missing values or truncated.  (The claim also wants the error
\* to name the line; no exception raised here does, and the formula is
\* refuted without asking for it.)
C3_RaggedLineRejected ==
    (RaggedRows # {} /\ pc # "parse") =>
        /\ flights_df = 0
        /\ pc = "failed"
        /\ err.type # "none"

----------------------------------------------------------------------------
(* C4 *)

\* the rows of the parsed table whose route does not split into two parts
BadRouteRows ==
    {k \in Rows(Parsed) :
        /\ Parsed.data[To_From][k].t = "str"
        /\ Cardinality(Underscores(Parsed.data[To_From][k].v)) # 1}

\* the cleaner has executed its route statements (lines 58-61)
RouteStepTaken ==
    \/ pc \in {"delay", "project", "print", "write", "done"}
    \/ pc = "failed" /\ err.type \in {"KeyError", "TypeError"}

\* C4: when a route does not split on '_' into exactly two parts, the cleaner
\* fails with an error and returns no table, so no table holds that row with
\* a missing To or with its third and later parts dropped.  (The claim also
\* wants the error to name the row; no exception raised here does, and the
\* formula is refuted without asking for it.)
C4_BadRouteRejected ==
    (flights_df # 0 /\ RouteStepTaken /\ BadRouteRows # {}) =>
        /\ pc = "failed"
        /\ cleaned_flights = 0
        /\ err.type # "none"

----------------------------------------------------------------------------
(* C5 *)

\* C5: when no row of the parsed table has a numeric flight code (or the table
\* has no row), the cleaner never gets past the flight-code statements: it
\* returns no table, assigns no flight code, and its run ends in an error.
C5_NoCodeNoTable ==
    (flights_df # 0 /\ NumericRows = {}) =>
        /\ pc \in {"copy", "airline", "codes", "failed"}
        /\ pc = "failed" => err.type = "IndexError"
        /\ cleaned_flights = 0 /\ final_df = 0 /\ ~csv_file.exists
        /\ passed_df # 0 =>
               \A i \in Rows(Passed) : Passed.data[FlightCodes][i].t # "int"

\* a table with rows, none with a numeric code, after the cleaner has raised
C5_Witness ==
    /\ flights_df # 0
    /\ Parsed.nrows > 0
    /\ NumericRows = {}
    /\ pc = "failed"
    /\ err.type = "IndexError"

----------------------------------------------------------------------------
(* C6 *)

\* the newlines of the trimmed text: one per data line
NumDataLines ==
    LET text == str_strip(raw_data)
    IN  Cardinality({i \in DOMAIN text : text[i] = "\n"})

\* C6: the projected table has exactly the columns Airline Code, From, To,
\* FlightCodes, DelayTimes in this order (no To_From), one row per data line,
\* and its k-th row comes from the k-th data line.
C6_ProjectedTable ==
    final_df # 0 =>
        LET out   == Projected
            n     == NumDataLines
            lines == DataLines
        IN  /\ out.columns = <<AirlineCode, From, To, FlightCodes, DelayTimes>>
            /\ DOMAIN out.data = {AirlineCode, From, To, FlightCodes, DelayTimes}
            /\ out.nrows = n
            /\ \A c \in DOMAIN out.data : DOMAIN out.data[c] = 1..n
            /\ \A k \in 1..n :
                  LET f     == lines[k]
                      parts == IF Len(f) >= 4 THEN str_split(f[4], "_") ELSE <<>>
                  IN  /\ out.data[AirlineCode][k] = clean_airline_code(f[1])
                      /\ out.data[DelayTimes][k] = ListCell(ints_of(re_findall_digits(f[2])))
                      /\ out.data[From][k] =
                             IF Len(parts) >= 1 THEN StrCell(str_upper(parts[1])) ELSE NaN
                      /\ out.data[To][k] =
                             IF Len(parts) >= 2 THEN StrCell(str_upper(parts[2])) ELSE NaN
                      /\ out.data[FlightCodes][k].t = "int"
                      /\ out.data[FlightCodes][k].v[1]
                             = out.data[FlightCodes][1].v[1] + 10 * (k - 1)

\* a projected table of two rows that differ
C6_Witness ==
    /\ final_df # 0
    /\ Projected.nrows = 2
    /\ Projected.data[AirlineCode][1] # Projected.data[AirlineCode][2]
    /\ Projected.data[From][1] # Projected.data[From][2]

----------------------------------------------------------------------------
(* C7 *)

\* the rows of the parsed table whose route is A_B with a single underscore
GoodRouteRows ==
    {k \in Rows(Parsed) :
        /\ Parsed.data[To_From][k].t = "str"
        /\ Cardinality(Underscores(Parsed.data[To_From][k].v)) = 1}

\* C7: for a route A_B with a single underscore the cleaned row has
\* From = upper(A) and To = upper(B), whatever the other rows hold.
C7_RouteSplit ==
    cleaned_flights # 0 =>
        \A k \in GoodRouteRows :
            LET route == Parsed.data[To_From][k].v
                p     == CHOOSE i \in DOMAIN route : route[i] = "_"
                A     == SubSeq(route, 1, p - 1)
                B     == SubSeq(route, p + 1, Len(route))
            IN  /\ Cleaned.data[From][k] = StrCell([i \in DOMAIN A |-> upper_char(A[i])])
                /\ Cleaned.data[To][k] = StrCell([i \in DOMAIN B |-> upper_char(B[i])])

\* a mixed-case route A_B next to a row whose route has no or two underscores
C7_Witness ==
    /\ cleaned_flights # 0
    /\ \E k \in GoodRouteRows :
           /\ str_upper(Parsed.data[To_From][k].v) # Parsed.data[To_From][k].v
           /\ Cleaned.data[To][k].v # <<>>
    /\ BadRouteRows # {}

----------------------------------------------------------------------------
(* C8 *)

\* the maximal runs of digits of s, as <<first, last>> positions
MaximalRuns(s) ==
    {r \in (DOMAIN s) \X (DOMAIN s) :
        /\ r[1] <= r[2]
        /\ \A i \in r[1]..r[2] : IsDigit(s[i])
        /\ r[1] = 1 \/ ~IsDigit(s[r[1] - 1])
        /\ r[2] = Len(s) \/ ~IsDigit(s[r[2] + 1])}

\* the decimal value of s[i..j]
RECURSIVE RunValue(_, _, _)
RunValue(s, i, j) ==
    IF i > j THEN 0 ELSE DigitVal(s[i]) * Pow10(j - i) + RunValue(s, i + 1, j)

\* str(n) for n >= 0
RECURSIVE Decimal(_)
Decimal(n) ==
    IF n < 10 THEN <<DigitChars[n + 1]>>
    ELSE Decimal(n \div 10) \o <<DigitChars[(n % 10) + 1]>>

\* str(list): '[60, 22, 87]'
RECURSIVE Items(_)
Items(l) ==
    IF l = <<>> THEN <<>>
    ELSE IF Len(l) = 1 THEN Decimal(l[1])
    ELSE Decimal(l[1]) \o <<",", " ">> \o Items(Tail(l))

Render(l) == <<"[">> \o Items(l) \o <<"]">>

\* C8: a cleaned DelayTimes value is the sequence of the integer values of the
\* maximal digit runs of the raw text, left to right; rendering it as text and
\* parsing that text again gives the same sequence.
C8_DelayRuns ==
    cleaned_flights # 0 =>
        \A k \in Rows(Cleaned) :
            LET text == Parsed.data[DelayTimes][k].v
                runs == MaximalRuns(text)
                out  == Cleaned.data[DelayTimes][k]
            IN  /\ out.t = "list"
                /\ Len(out.v) = Cardinality(runs)
                /\ \A r \in runs :
                       out.v[Cardinality({q \in runs : q[1] <= r[1]})]
                           = RunValue(text, r[1], r[2])
                /\ ints_of(re_findall_digits(Render(out.v))) = out.v

\* a raw text with several runs, one of them longer than a digit
C8_Witness ==
    /\ cleaned_flights # 0
    /\ \E k \in Rows(Cleaned) :
           LET runs == MaximalRuns(Parsed.data[DelayTimes][k].v)
           IN  /\ Cardinality(runs) >= 2
               /\ \E r \in runs : r[2] > r[1]

----------------------------------------------------------------------------
(* C9 *)

SameCells(a, b, c) ==
    /\ DOMAIN a.data[c] = DOMAIN b.data[c]
    /\ \A i \in DOMAIN a.data[c] :
           /\ a.data[c][i].t = b.data[c][i].t
           /\ a.data[c][i].v = b.data[c][i].v

SameFrame(a, b) ==
    /\ a.columns = b.columns
    /\ a.nrows = b.nrows
    /\ \A c \in Range(a.columns) : SameCells(a, b, c)

\* C9 as claimed: after the cleaner has returned, the table it was passed
\* still has its original columns and raw values, and so has main's flights_df.
C9_ArgumentUnchanged ==
    cleaned_flights # 0 =>
        /\ SameFrame(Passed, parse_result(raw_data).df)
        /\ SameFrame(Parsed, parse_result(raw_data).df)

\* C9 as amended: the cleaner assigns into the table it is passed (on return
\* that table has the cleaned airline codes, the regenerated flight codes and
\* the new From and To columns, and still the raw To_From and DelayTimes);
\* main passes a copy, so main's flights_df has its original columns and raw
\* values at every point of the run.
C9_CallerTableUnchanged ==
    /\ flights_df # 0 => SameFrame(Parsed, parse_result(raw_data).df)
    /\ cleaned_flights # 0 =>
          /\ passed_df # flights_df
          /\ passed_df # cleaned_flights
          /\ Passed.columns = <<AirlineCode, DelayTimes, FlightCodes, To_From, From, To>>
          /\ SameCells(Passed, Parsed, To_From)
          /\ SameCells(Passed, Parsed, DelayTimes)
          /\ \A c \in {AirlineCode, FlightCodes, From, To} : SameCells(Passed, Cleaned, c)

\* the cleaner has returned and the table it was passed differs from the input
C9_Witness ==
    /\ cleaned_flights # 0
    /\ Passed.columns # Parsed.columns
    /\ \E i \in Rows(Parsed) :
           Passed.data[AirlineCode][i].v # Parsed.data[AirlineCode][i].v

----------------------------------------------------------------------------
(* C10 *)

\* C10: the stages run in the order parse, clean, project, print, write; an
\* error ends the run where it is raised, with the table not printed and the
\* file not written; the file is written only when all stages completed.
C10_FailFast ==
    /\ Len(log) <= Len(Stages)
    /\ log = SubSeq(Stages, 1, Len(log))
    /\ (err.type # "none") = (pc = "failed")
    /\ pc = "failed" =>
          /\ ~TablePrinted
          /\ ~csv_file.exists
          /\ Len(log) < 3
          /\ ~ENABLED Next
    /\ TablePrinted => SubSeq(log, 1, 3) = <<"parse", "clean", "project">>
    /\ csv_file.exists =>
          /\ log = Stages
          /\ TablePrinted
          /\ err = NoError
          /\ csv_file.content = Projected

\* the cleaner raised after a successful parse: nothing printed, no file
C10_Witness ==
    /\ pc = "failed"
    /\ log = <<"parse">>
    /\ err.type \in {"IndexError", "KeyError", "TypeError"}

====
